---- MODULE Spec2Model ----
(***************************************************************************)
(* The resilient generation pipeline of the reference service              *)
(* (src/unnamed/part_001, a revision of src/services/geminiService.ts):    *)
(* withRetry, the transport client, the format check and repair round,     *)
(* the drills batches and the pipeline stages.                             *)
(*                                                                         *)
(* Text is a sequence of one-character strings, so that stripCodeFences,   *)
(* looksLikeMarkdown and trim are computed character by character as the   *)
(* regular expressions of the source compute them.                         *)
(***************************************************************************)
EXTENDS Integers, Sequences, FiniteSets, TLC

\* ------------------------------------------------------------------ text

\* The characters \s of a JavaScript regular expression matches, and the line
\* terminators that "." does not match and after which "^" matches under /m.
WS == {" ", "\n"}
LineTerm == {"\n"}

\* The backtick is written as the token "bq": a string of the module cannot
\* hold the character itself.
BQ == "bq"
BT3 == <<BQ, BQ, BQ>>
TL3 == <<"~", "~", "~">>
HTML == <<"h", "t", "m", "l">>
STAR2 == <<"*", "*">>

\* The /i flag of the fence patterns: letters compare in lower case.
Lower(c) ==
  CASE c = "H" -> "h"
    [] c = "T" -> "t"
    [] c = "M" -> "m"
    [] c = "L" -> "l"
    [] OTHER -> c

\* p occurs in s at position i (1-based).
MatchAt(s, i, p) ==
  /\ i >= 1
  /\ i + Len(p) - 1 <= Len(s)
  /\ \A k \in 1..Len(p) : Lower(s[i + k - 1]) = p[k]

\* String.prototype.includes.
Includes(s, p) == \E i \in 1..Len(s) : MatchAt(s, i, p)

\* The first position at or after i that holds no whitespace (the end of a
\* greedy \s* that starts at i).
RECURSIVE SkipWS(_, _)
SkipWS(s, i) ==
  IF i <= Len(s) /\ s[i] \in WS THEN SkipWS(s, i + 1) ELSE i

\* s.replace(/<fence>html\s*/gi, "") from position i on: leftmost matches,
\* not overlapping, each with all the whitespace that follows it.
RECURSIVE RemoveFenceHtml(_, _, _)
RemoveFenceHtml(s, i, fence) ==
  IF i > Len(s) THEN <<>>
  ELSE IF MatchAt(s, i, fence \o HTML)
       THEN RemoveFenceHtml(s, SkipWS(s, i + Len(fence) + Len(HTML)), fence)
       ELSE <<s[i]>> \o RemoveFenceHtml(s, i + 1, fence)

\* s.replace(/<fence>/g, "") from position i on.
RECURSIVE RemoveFence(_, _, _)
RemoveFence(s, i, fence) ==
  IF i > Len(s) THEN <<>>
  ELSE IF MatchAt(s, i, fence)
       THEN RemoveFence(s, i + Len(fence), fence)
       ELSE <<s[i]>> \o RemoveFence(s, i + 1, fence)

RECURSIVE TrimLeft(_)
TrimLeft(s) ==
  IF s # <<>> /\ Head(s) \in WS THEN TrimLeft(Tail(s)) ELSE s

RECURSIVE TrimRight(_)
TrimRight(s) ==
  IF s # <<>> /\ s[Len(s)] \in WS THEN TrimRight(SubSeq(s, 1, Len(s) - 1)) ELSE s

\* String.prototype.trim.
Trim(s) == TrimRight(TrimLeft(s))

\* part_001 stripCodeFences: the four replacements in the order of the source,
\* then trim.
stripCodeFences(s) ==
  Trim(RemoveFence(
         RemoveFenceHtml(
           RemoveFence(RemoveFenceHtml(s, 1, BT3), 1, BT3),
           1, TL3),
         1, TL3))

\* "^" under /m: the start of the text or the position after a line terminator.
LineStart(t, i) == i = 1 \/ (i > 1 /\ t[i - 1] \in LineTerm)

\* /\*\*.+\*\*/ : two stars, at least one character that is no line terminator,
\* two stars.
HasBold(t) ==
  \E i \in 1..Len(t) : \E j \in (i + 3)..Len(t) :
    /\ MatchAt(t, i, STAR2)
    /\ MatchAt(t, j, STAR2)
    /\ \A k \in (i + 2)..(j - 1) : t[k] \notin LineTerm

\* /^#{1,6}\s/m
HasHeading(t) ==
  \E i \in 1..Len(t) : \E n \in 1..6 :
    /\ LineStart(t, i)
    /\ i + n <= Len(t)
    /\ \A k \in i..(i + n - 1) : t[k] = "#"
    /\ t[i + n] \in WS

\* /^\s*[-*+]\s+/m
HasBulletAtStart(t) ==
  \E j \in 1..(Len(t) - 1) :
    /\ LineStart(t, j)
    /\ t[j] \in {"-", "*", "+"}
    /\ t[j + 1] \in WS
HasBullet(t) ==
  \E i \in 1..Len(t) : \E j \in i..(Len(t) - 1) :
    /\ LineStart(t, i)
    /\ \A k \in i..(j - 1) : t[k] \in WS
    /\ t[j] \in {"-", "*", "+"}
    /\ t[j + 1] \in WS

HasFence(t) == Includes(t, BT3) \/ Includes(t, TL3)

\* part_001 looksLikeMarkdown.
looksLikeMarkdown(t) ==
  HasFence(t) \/ HasBold(t) \/ HasHeading(t) \/ HasBullet(t)

\* ------------------------------------------------------- values, errors

\* A string-valued slot that may not be assigned yet.
Unset == [set |-> FALSE, v |-> <<>>]
Val(v) == [set |-> TRUE, v |-> v]

\* An Error object: its kind (which message the source builds), the HTTP
\* status or the timeout it carries, the length of the detail its message
\* quotes from the response body, and the invocation of the wrapped
\* operation that raised it (what makes two errors of a kind two objects).
NoErr == [kind |-> "undefined", status |-> 0, ms |-> 0, at |-> 0, len |-> 0]
Err(kind, status, ms, at) ==
  [kind |-> kind, status |-> status, ms |-> ms, at |-> at, len |-> 0]

\* The outcome of an invocation: pending, a returned value or a raised error.
Pending == [t |-> "none", v |-> <<>>, e |-> NoErr]
Returned(v) == [t |-> "value", v |-> v, e |-> NoErr]
Raised(e) == [t |-> "error", v |-> <<>>, e |-> e]

Rounds == {"primary", "repair"}
Batches == {1, 2}
Stages == {"verify", "solve", "analyze", "drills", "speech"}

\* The maxRetry argument each stage passes to withRetry (verifyProblem passes
\* none and gets the default).
MaxRetryOf(stage, round) ==
  CASE stage = "verify" -> 2
    [] stage = "solve" /\ round = "primary" -> 2
    [] stage = "solve" /\ round = "repair" -> 1
    [] stage = "analyze" -> 2
    [] stage = "drills" /\ round = "primary" -> 3
    [] stage = "drills" /\ round = "repair" -> 2
    [] OTHER -> 0

\* The maxRetry arguments of src/services/geminiService.ts: 3 and 2 in
\* callBatch, 2 for generateSpeech, the default 2 everywhere else (both
\* withRetry calls of solveProblem pass none).
MaxRetryOfProxy(stage, round) ==
  CASE stage = "drills" /\ round = "primary" -> 3
    [] stage = "drills" /\ round = "repair" -> 2
    [] OTHER -> 2

\* The timeoutMs each stage passes to the transport client.
TimeoutOf(stage, round) ==
  CASE stage = "verify" -> 25000
    [] stage = "solve" /\ round = "primary" -> 30000
    [] stage = "solve" /\ round = "repair" -> 25000
    [] stage = "analyze" -> 30000
    [] stage = "drills" /\ round = "primary" -> 35000
    [] stage = "drills" /\ round = "repair" -> 25000
    [] OTHER -> 35000

\* generateDrills awaits callBatch(1), then callBatch(2).
SwappedBatchOrder == <<2, 1>>
BatchOrder == <<1, 2>>

\* The state of one invocation (of a stage, or of withRetry on its own).
\*   service          the module the stage belongs to: "direct" for
\*                    unnamed/part_001, which calls the upstream itself,
\*                    "proxy" for src/services/geminiService.ts, which calls
\*                    the Netlify functions
\*   stage, pc        the operation and where it is suspended
\*   round, slot      the generation under way: primary or repair, and the
\*                    position in BatchOrder of the batch under way
\*   i, maxRetry, lastErr   the locals of withRetry
\*   calls, okCalls, raised, delays   what the running withRetry did so far:
\*                    invocations of fn, those that returned, the errors fn
\*                    raised (kept for withRetry on its own), the sleeps
\*   inFlight, timer  the pending fetch and the pending abort timer
\*   status           the status of the response whose body is being read
\*   streak           what the failed attempts of the running withRetry have
\*                    in common so far: "none" (no failure yet), "empty"
\*                    (each got a reply of empty content), "timer" (each was
\*                    cut by its abort timer), "other"
\*   lastReply        the content of the reply the current attempt received
\*   first, fix, parts   per batch: the value of the primary generation, of
\*                    the repair round, and of callBatch
\*   reqs, repairs    per batch: transport requests issued per round, and
\*                    repair rounds started
\*   script           for withRetry on its own: fn fails k times, then
\*                    returns val
\*   arg, flag        for a text function on its own: its argument, and the
\*                    boolean it returned
\*   res              the outcome
Idle ==
  [service |-> "direct", stage |-> "idle", pc |-> "idle", round |-> "primary", slot |-> 1,
   i |-> 0, maxRetry |-> 0, lastErr |-> NoErr,
   calls |-> 0, okCalls |-> 0, raised |-> <<>>, delays |-> <<>>,
   inFlight |-> 0, timer |-> FALSE, status |-> 0, streak |-> "none",
   lastReply |-> Unset,
   first |-> [b \in Batches |-> Unset],
   fix |-> [b \in Batches |-> Unset],
   parts |-> [b \in Batches |-> Unset],
   reqs |-> [b \in Batches |-> [primary |-> 0, repair |-> 0]],
   repairs |-> [b \in Batches |-> 0],
   script |-> [k |-> 0, val |-> <<>>],
   arg |-> <<>>, flag |-> FALSE,
   res |-> Pending]

\* The batch under way (1 for the stages without batches).
BatchOf(r) == IF r.stage = "drills" THEN BatchOrder[r.slot] ELSE 1

\* The maxRetry argument of the withRetry call of a round.
Budget(r, round) ==
  IF r.service = "proxy"
  THEN MaxRetryOfProxy(r.stage, round)
  ELSE MaxRetryOf(r.stage, round)

\* ------------------------------------------------------------- withRetry

Min(a, b) == IF a <= b THEN a ELSE b

\* Math.min(4000, 600 * Math.pow(2, i))
BackoffUncapped(i) == 600 * 2^i
Backoff(i) == Min(4000, 600 * 2^i)

\* let lastErr; for (let i = 0; ...
withRetryStartKeepsI(r, maxRetry) ==
  [r EXCEPT !.pc = "loop", !.maxRetry = maxRetry, !.lastErr = NoErr,
            !.calls = 0, !.okCalls = 0, !.raised = <<>>, !.delays = <<>>,
            !.streak = "none"]
withRetryStart(r, maxRetry) ==
  [r EXCEPT !.pc = "loop", !.i = 0, !.maxRetry = maxRetry, !.lastErr = NoErr,
            !.calls = 0, !.okCalls = 0, !.raised = <<>>, !.delays = <<>>,
            !.streak = "none"]

\* The loop condition: i <= maxRetry.
LoopCondOffByOne(r) == r.i < r.maxRetry
LoopCondOneMore(r) == r.i <= r.maxRetry + 1
LoopCond(r) == r.i <= r.maxRetry

\* catch (e) { lastErr = e; await sleep(...) }
CatchKeepsFirst(r, e) ==
  [r EXCEPT !.lastErr = IF r.lastErr = NoErr THEN e ELSE r.lastErr,
            !.pc = "sleep"]
CatchWithoutSleep(r, e) ==
  [r EXCEPT !.lastErr = e, !.i = r.i + 1, !.pc = "loop"]
Catch(r, e) == [r EXCEPT !.lastErr = e, !.pc = "sleep"]

\* The sleep is over: i++ and back to the loop condition.
SleptNever(r) == r
Slept(r) ==
  [r EXCEPT !.delays = Append(@, Backoff(r.i)), !.i = r.i + 1, !.pc = "loop"]

\* -------------------------------------------------------------- stages

\* The invocation ends with a value.
Resolve(r, v) == [r EXCEPT !.pc = "done", !.res = Returned(v)]

\* An error nothing catches ends the invocation: the stages have no try/catch
\* around withRetry, nor generateDrills around callBatch.
RaiseKeepsPart1(r, e) ==
  IF r.stage = "drills" /\ r.parts[1].set
  THEN [r EXCEPT !.pc = "done", !.res = Returned(r.parts[1].v)]
  ELSE [r EXCEPT !.pc = "done", !.res = Raised(e)]
Raise(r, e) == [r EXCEPT !.pc = "done", !.res = Raised(e)]

\* throw lastErr, after the loop.
ThrowFallsBack(r) ==
  IF r.round = "repair" /\ r.first[BatchOf(r)].set
  THEN Resolve(r, r.first[BatchOf(r)].v)
  ELSE Raise(r, r.lastErr)
Throw(r) == Raise(r, r.lastErr)

\* verifyProblem: out = (pickContent(json) || "").trim()
Untrimmed(c) == c
VerifyOut(c) == Trim(c)

\* verifyProblem: if (!out) throw ...
IsBlank(out) == out = <<>>

\* The HTML stages: if (!html || !html.trim()) throw ...
NeverBlank(html) == FALSE
IsBlankHtml(html) == html = <<>> \/ Trim(html) = <<>>

\* if (!looksLikeMarkdown(firstTry)) return firstTry;
NeverRepair(v) == FALSE
AlwaysRepair(v) == TRUE
NeedsRepair(v) == looksLikeMarkdown(v)

\* `${part1}\n${part2}`
JoinSwapped(p1, p2) == p2 \o <<"\n">> \o p1
DrillsResult(p1, p2) == p1 \o <<"\n">> \o p2

\* callBatch returns v: the next batch starts, or generateDrills returns.
BatchDone(r, v) ==
  LET r1 == [r EXCEPT !.parts[BatchOf(r)] = Val(v)] IN
  IF r.slot < Len(BatchOrder)
  THEN withRetryStart([r1 EXCEPT !.slot = r.slot + 1, !.round = "primary"],
                      Budget(r, "primary"))
  ELSE Resolve(r1, DrillsResult(r1.parts[1].v, r1.parts[2].v))

\* The primary generation gave a markdown-like text: the repair prompt is
\* built around it and the second withRetry starts.
StartRepair(r) ==
  withRetryStart([r EXCEPT !.round = "repair",
                           !.repairs[BatchOf(r)] = @ + 1],
                 Budget(r, "repair"))

\* The primary generation's withRetry returned v (firstTry, first).
PrimaryReturnAllChecked(r, v) ==
  LET r1 == [r EXCEPT !.first[BatchOf(r)] = Val(v)] IN
  CASE NeedsRepair(v) -> StartRepair(r1)
    [] r.stage = "drills" -> BatchDone(r1, v)
    [] OTHER -> Resolve(r1, v)
PrimaryReturn(r, v) ==
  LET r1 == [r EXCEPT !.first[BatchOf(r)] = Val(v)] IN
  CASE r.stage = "solve" ->
         IF NeedsRepair(v) THEN StartRepair(r1) ELSE Resolve(r1, v)
    [] r.stage = "drills" ->
         IF NeedsRepair(v) THEN StartRepair(r1) ELSE BatchDone(r1, v)
    [] OTHER -> Resolve(r1, v)

\* The repair round's withRetry returned v: return await withRetry(...).
RepairReturnChecked(r, v) ==
  LET r1 == [r EXCEPT !.fix[BatchOf(r)] = Val(v)] IN
  IF looksLikeMarkdown(v)
  THEN Raise(r1, Err("RepairExhausted", 0, 0, r.calls))
  ELSE IF r.stage = "drills" THEN BatchDone(r1, v) ELSE Resolve(r1, v)
RepairReturn(r, v) ==
  LET r1 == [r EXCEPT !.fix[BatchOf(r)] = Val(v)] IN
  IF r.stage = "drills" THEN BatchDone(r1, v) ELSE Resolve(r1, v)

\* return await fn(): the value withRetry returns goes to the code after it.
Return(r, v) ==
  LET r1 == [r EXCEPT !.okCalls = @ + 1] IN
  CASE r.stage = "withRetry" -> Resolve(r1, v)
    [] r.round = "primary" -> PrimaryReturn(r1, v)
    [] OTHER -> RepairReturn(r1, v)

\* ------------------------------------------------------------ transport

VARIABLES
  inv,   \* the invocations under way, by identity
  env    \* the names import.meta.env defines (never changed)

vars == <<inv, env>>

RequiredNames == {"VITE_API_BASE", "VITE_API_KEY"}

\* The texts an upstream reply may carry as choices[0].message.content (for
\* the speech stage: as audio_base64). A reply without the field reads as "".
Clean == <<"<", "p", ">">>
Bold == <<"*", "*", "a", "*", "*">>
Fenced == BT3 \o HTML \o <<"\n">> \o Clean \o <<"\n">> \o BT3
Residue == <<BQ, "~", "~", "~", BQ, BQ>>
Blank == <<" ", "\n">>
Padded == <<" ">> \o Clean \o <<"\n">>
Contents == {<<>>, Blank, BT3, Clean, Bold, Fenced, Residue, Padded}

\* The statuses of a response: res.ok, and the non-2xx ones.
OkStatuses == {200}
Statuses == {500}

\* The body of a non-2xx response: plain text, a JSON object with a string
\* "error" field, a JSON object with an object "error" field, or a JSON object
\* without one. n is the length of what the detail is made of: the text, the
\* error string, or JSON.stringify of the error object or of the object.
ErrorBodies ==
  [shape : {"text"}, n : {0, 40, 3000}]
    \cup [shape : {"errorString", "errorObject", "object"}, n : {40, 3000}]

\* .slice(0, 1500)
DetailLimit == 1500

\* The length of "HTTP <status>", for a status of three digits.
HttpStatusLen == 8

\* const detail = data?.error || data || text || "HTTP <status>", and in the
\* message: typeof detail === "string" ? detail
\*                                     : JSON.stringify(detail).slice(0, 1500)
DetailLen(body) ==
  CASE body.shape \in {"text", "errorString"} ->
         IF body.n = 0 THEN HttpStatusLen ELSE body.n
    [] OTHER -> Min(body.n, DetailLimit)

\* The operation runs inside withRetry: every stage but generateSpeech of
\* unnamed/part_001.
InRetry(r) == r.stage # "speech" \/ r.service = "proxy"

\* An error of the wrapped operation escapes: withRetry catches it; the speech
\* stage of unnamed/part_001, which does not use withRetry, fails with it.
FailFatalConfig(r, e) ==
  IF ~InRetry(r) \/ e.kind = "Config" THEN Raise(r, e) ELSE Catch(r, e)
Fail(r, e) == IF InRetry(r) THEN Catch(r, e) ELSE Raise(r, e)

\* The attempt under way fails for `cause`: what the failed attempts of the
\* running withRetry have in common.
Mark(r, cause) ==
  [r EXCEPT !.streak = IF r.calls <= 1 \/ @ = cause THEN cause ELSE "other"]

\* requiredEnv throws for the first required name that is not defined.
OnlyBaseRequired(e) == "VITE_API_BASE" \notin e
MissingEnv(e) == RequiredNames \ e # {}

\* One invocation of the wrapped operation up to its await of fetch:
\* callChatCompletions (generateSpeech) reads the configuration, then
\* fetchJsonWithTimeout arms the abort timer and issues the request.
Attempt(r, e) ==
  LET r1 == [r EXCEPT !.calls = @ + 1, !.lastReply = Unset] IN
  IF MissingEnv(e)
  THEN Fail(Mark(r1, "other"), Err("Config", 0, 0, r1.calls))
  ELSE [r1 EXCEPT !.pc = "fetch", !.inFlight = @ + 1, !.timer = TRUE,
                  !.reqs[BatchOf(r)][r.round] = @ + 1]

\* await fetch(...) gives the response: its status is known, its body is
\* still to be read by res.text().
OnHeaders(r, status) == [r EXCEPT !.pc = "body", !.status = status]

\* finally { window.clearTimeout(timer) }, the request being settled.
Finally(r) == [r EXCEPT !.inFlight = @ - 1, !.timer = FALSE, !.status = 0]

\* A 2xx reply whose content is the string c: the rest of the wrapped
\* operation.
OnContent(r, c) ==
  LET r1 == [Finally(r) EXCEPT !.lastReply = Val(c)] IN
  CASE r.stage = "speech" ->
         IF c = <<>>
         THEN Raise(r1, Err("NoAudio", 0, 0, r1.calls))
         ELSE Resolve(r1, c)
    [] r.stage = "verify" ->
         IF IsBlank(VerifyOut(c))
         THEN Fail(Mark(r1, "empty"), Err("Empty", 0, 0, r1.calls))
         ELSE Return(r1, VerifyOut(c))
    [] OTHER ->
         IF IsBlankHtml(stripCodeFences(c))
         THEN Fail(Mark(r1, "empty"), Err("Empty", 0, 0, r1.calls))
         ELSE Return(r1, stripCodeFences(c))

\* A 2xx reply whose content is a truthy value that is no string: .trim and
\* .replace are not functions of it.
OnNonString(r) ==
  Fail(Mark(Finally(r), "other"), Err("TypeError", 0, 0, r.calls))

\* if (!res.ok) throw new Error("Upstream <status>: <detail>")
OnStatus(r, body) ==
  Fail(Mark(Finally(r), "other"),
       [Err("Upstream", r.status, 0, r.calls) EXCEPT !.len = DetailLen(body)])

\* The timer fires while fetch is pending: controller.abort() rejects the
\* fetch with an AbortError, which the catch turns into the timeout error.
OnTimeout(r) ==
  Fail(Mark(Finally(r), "timer"),
       Err("Timeout", 0, TimeoutOf(r.stage, r.round), r.calls))

\* The timer fires while the body is read: controller.abort() rejects
\* res.text(), and .catch(() => "") makes the text "". data stays null; a 2xx
\* response is returned as "", whose content reads as ""; a non-2xx one
\* raises the upstream error with "HTTP <status>" for detail.
OnBodyAborted(r) ==
  LET r1 == IF r.status \in OkStatuses
            THEN OnContent(r, <<>>)
            ELSE OnStatus(r, [shape |-> "text", n |-> 0])
  IN [r1 EXCEPT !.streak = Mark(r, "timer").streak]

\* fetch rejects (no connection): the catch rethrows the error as it is.
OnNetworkError(r) ==
  Fail(Mark(Finally(r), "other"), Err("Network", 0, 0, r.calls))

\* ------------------------------------------------------------- actions

\* One step of invocation n: its locals change, nothing else does.
SetSharedLastErr(n, r) ==
  /\ inv' = [m \in DOMAIN inv |->
              IF m = n THEN r ELSE [inv[m] EXCEPT !.lastErr = r.lastErr]]
  /\ UNCHANGED env
Set(n, r) == inv' = [inv EXCEPT ![n] = r] /\ UNCHANGED env

\* A stage is invoked. The stages with withRetry enter its loop;
\* generateSpeech runs its single attempt.
Invoke(n) ==
  /\ inv[n].pc = "idle"
  /\ \E stage \in Stages :
       LET r == [Idle EXCEPT !.stage = stage] IN
       IF stage = "speech"
       THEN Set(n, Attempt(r, env))
       ELSE Set(n, withRetryStart(r, MaxRetryOf(stage, "primary")))

\* for (...; i <= maxRetry; ...) try { return await fn() }
RetryAttempt(n) ==
  /\ inv[n].pc = "loop"
  /\ inv[n].stage \in Stages
  /\ LoopCond(inv[n])
  /\ Set(n, Attempt(inv[n], env))

\* The loop is over: throw lastErr.
RetryExhausted(n) ==
  /\ inv[n].pc = "loop"
  /\ ~LoopCond(inv[n])
  /\ Set(n, Throw(inv[n]))

\* await sleep(...) is over.
RetrySleep(n) ==
  /\ inv[n].pc = "sleep"
  /\ Set(n, Slept(inv[n]))

\* await fetch(...) resolves with the response.
FetchHeaders(n) ==
  /\ inv[n].pc = "fetch"
  /\ \E status \in OkStatuses \cup Statuses : Set(n, OnHeaders(inv[n], status))

FetchTimeout(n) ==
  /\ inv[n].pc = "fetch"
  /\ inv[n].timer
  /\ Set(n, OnTimeout(inv[n]))

FetchNetworkError(n) ==
  /\ inv[n].pc = "fetch"
  /\ Set(n, OnNetworkError(inv[n]))

\* res.text() gives the body of a 2xx response.
FetchContent(n) ==
  /\ inv[n].pc = "body"
  /\ inv[n].status \in OkStatuses
  /\ \E c \in Contents : Set(n, OnContent(inv[n], c))

FetchNonString(n) ==
  /\ inv[n].pc = "body"
  /\ inv[n].status \in OkStatuses
  /\ inv[n].stage # "speech"
  /\ Set(n, OnNonString(inv[n]))

\* res.text() gives the body of a non-2xx response.
FetchStatus(n) ==
  /\ inv[n].pc = "body"
  /\ inv[n].status \in Statuses
  /\ \E body \in ErrorBodies : Set(n, OnStatus(inv[n], body))

\* The abort timer fires before res.text() has the body.
BodyAborted(n) ==
  /\ inv[n].pc = "body"
  /\ inv[n].timer
  /\ Set(n, OnBodyAborted(inv[n]))

Init ==
  /\ env \in SUBSET RequiredNames
  /\ inv = [n \in {1} |-> Idle]

Next ==
  \/ \E n \in DOMAIN inv : Invoke(n)
  \/ \E n \in DOMAIN inv : RetryAttempt(n)
  \/ \E n \in DOMAIN inv : RetryExhausted(n)
  \/ \E n \in DOMAIN inv : RetrySleep(n)
  \/ \E n \in DOMAIN inv : FetchHeaders(n)
  \/ \E n \in DOMAIN inv : FetchTimeout(n)
  \/ \E n \in DOMAIN inv : FetchNetworkError(n)
  \/ \E n \in DOMAIN inv : FetchContent(n)
  \/ \E n \in DOMAIN inv : FetchNonString(n)
  \/ \E n \in DOMAIN inv : FetchStatus(n)
  \/ \E n \in DOMAIN inv : BodyAborted(n)

Spec == Init /\ [][Next]_vars

\* ------------------------------------------- two invocations at once

\* The cases tried with two invocations under way: solveProblem and
\* generateDrills, replies of clean or bold content, attempts cut by the abort
\* timer before the headers, at most two invocations of the operation per
\* withRetry.
PairBounds(r) ==
  /\ r.stage \in {"idle", "solve", "drills"}
  /\ r.lastReply.v \in {<<>>, Clean, Bold}
  /\ r.lastErr.kind \in {"undefined", "Timeout"}
  /\ r.calls <= 2

InPairBounds == \A n \in DOMAIN inv : PairBounds(inv[n])

InitPair ==
  /\ env = RequiredNames
  /\ inv = [n \in {1, 2} |-> Idle]

NextPair ==
  \/ \E n \in DOMAIN inv : Invoke(n) /\ InPairBounds'
  \/ \E n \in DOMAIN inv : RetryAttempt(n) /\ InPairBounds'
  \/ \E n \in DOMAIN inv : RetryExhausted(n) /\ InPairBounds'
  \/ \E n \in DOMAIN inv : RetrySleep(n) /\ InPairBounds'
  \/ \E n \in DOMAIN inv : FetchHeaders(n) /\ InPairBounds'
  \/ \E n \in DOMAIN inv : FetchTimeout(n) /\ InPairBounds'
  \/ \E n \in DOMAIN inv : FetchContent(n) /\ InPairBounds'

SpecPair == InitPair /\ [][NextPair]_vars

\* ------------------------- the service of src/services/geminiService.ts

\* The lengths of the body of a non-2xx reply of a Netlify function.
ProxyBodyLens == {0, 40}

\* The length of "LLM HTTP <status>" and of "TTS HTTP <status>".
ProxyStatusLen == 12

\* One invocation of the wrapped operation up to its await of fetch: no
\* configuration is read and no abort timer is armed.
AttemptProxy(r) ==
  [r EXCEPT !.calls = @ + 1, !.lastReply = Unset, !.pc = "fetch",
            !.inFlight = @ + 1, !.reqs[BatchOf(r)][r.round] = @ + 1]

\* The request is settled.
Settled(r) == [r EXCEPT !.inFlight = @ - 1, !.status = 0]

\* A 2xx reply whose JSON holds the content c (audio_base64 for
\* generateSpeech, which returns json?.audio_base64 || "": an absent field
\* reads as ""): the rest of the wrapped operation, which tests nothing.
OnContentProxy(r, c) ==
  LET r1 == [Settled(r) EXCEPT !.lastReply = Val(c)] IN
  CASE r.stage = "speech" -> Return(r1, c)
    [] r.stage = "verify" -> Return(r1, Trim(c))
    [] OTHER -> Return(r1, stripCodeFences(c))

\* A 2xx reply whose body is no JSON: res.json() rejects.
OnNotJsonProxy(r) ==
  Fail(Mark(Settled(r), "other"), Err("Syntax", 0, 0, r.calls))

\* if (!res.ok) throw new Error(txt || "LLM HTTP <status>"), for a body of
\* len characters.
OnStatusProxy(r, len) ==
  Fail(Mark(Settled(r), "other"),
       [Err("Upstream", IF len = 0 THEN r.status ELSE 0, 0, r.calls)
          EXCEPT !.len = IF len = 0 THEN ProxyStatusLen ELSE len])

\* fetch rejects.
OnNetworkErrorProxy(r) ==
  Fail(Mark(Settled(r), "other"), Err("Network", 0, 0, r.calls))

\* A stage is invoked: each of the five enters withRetry.
InvokeProxy(n) ==
  /\ inv[n].pc = "idle"
  /\ inv[n].service = "proxy"
  /\ \E stage \in Stages :
       LET r == [inv[n] EXCEPT !.stage = stage] IN
       Set(n, withRetryStart(r, Budget(r, "primary")))

RetryAttemptProxy(n) ==
  /\ inv[n].pc = "loop"
  /\ inv[n].service = "proxy"
  /\ LoopCond(inv[n])
  /\ Set(n, AttemptProxy(inv[n]))

FetchNetworkErrorProxy(n) ==
  /\ inv[n].pc = "fetch"
  /\ Set(n, OnNetworkErrorProxy(inv[n]))

FetchContentProxy(n) ==
  /\ inv[n].pc = "body"
  /\ inv[n].status \in OkStatuses
  /\ \E c \in Contents : Set(n, OnContentProxy(inv[n], c))

FetchNotJsonProxy(n) ==
  /\ inv[n].pc = "body"
  /\ inv[n].status \in OkStatuses
  /\ Set(n, OnNotJsonProxy(inv[n]))

FetchStatusProxy(n) ==
  /\ inv[n].pc = "body"
  /\ inv[n].status \in Statuses
  /\ \E len \in ProxyBodyLens : Set(n, OnStatusProxy(inv[n], len))

InitProxy ==
  /\ env = {}
  /\ inv = [n \in {1} |-> [Idle EXCEPT !.service = "proxy"]]

NextProxy ==
  \/ \E n \in DOMAIN inv : InvokeProxy(n)
  \/ \E n \in DOMAIN inv : RetryAttemptProxy(n)
  \/ \E n \in DOMAIN inv : RetryExhausted(n)
  \/ \E n \in DOMAIN inv : RetrySleep(n)
  \/ \E n \in DOMAIN inv : FetchHeaders(n)
  \/ \E n \in DOMAIN inv : FetchNetworkErrorProxy(n)
  \/ \E n \in DOMAIN inv : FetchContentProxy(n)
  \/ \E n \in DOMAIN inv : FetchNotJsonProxy(n)
  \/ \E n \in DOMAIN inv : FetchStatusProxy(n)

SpecProxy == InitProxy /\ [][NextProxy]_vars

\* ------------------------------------------ stripCodeFences on its own

\* The sequences over A of length at most n.
SeqsUpTo(A, n) == UNION {[1..k -> A] : k \in 0..n}

\* The bounds of the texts tried: every text of fence characters up to
\* MaxFenceLen, and every text up to MaxTextLen over the characters the
\* patterns of stripCodeFences tell apart.
MaxFenceLen == 6
MaxTextLen == 3
FenceChars == {BQ, "~"}
StripChars == {BQ, "~", "h", "t", "m", "l", " ", "x"}
StripInputs ==
  SeqsUpTo(FenceChars, MaxFenceLen) \cup SeqsUpTo(StripChars, MaxTextLen)
    \cup {Fenced, Residue, Padded}

InitStrip ==
  /\ env = RequiredNames
  /\ \E x \in StripInputs :
       inv = [n \in {1} |-> [Idle EXCEPT !.stage = "strip", !.pc = "text",
                                         !.arg = x]]

\* stripCodeFences(x), then stripCodeFences of what it returned.
ApplyStrip(n) ==
  /\ inv[n].stage = "strip"
  /\ inv[n].calls = 0
  /\ LET v == stripCodeFences(inv[n].arg) IN
     Set(n, [inv[n] EXCEPT !.calls = 1, !.first[1] = Val(v),
                           !.res = Returned(v)])

ApplyStripAgain(n) ==
  /\ inv[n].stage = "strip"
  /\ inv[n].calls = 1
  /\ Set(n, [inv[n] EXCEPT !.calls = 2, !.pc = "done",
                           !.res = Returned(stripCodeFences(inv[n].res.v))])

NextStrip ==
  \/ \E n \in DOMAIN inv : ApplyStrip(n)
  \/ \E n \in DOMAIN inv : ApplyStripAgain(n)

SpecStrip == InitStrip /\ [][NextStrip]_vars

\* ---------------------------------------- looksLikeMarkdown on its own

\* The bound of the texts tried: every text up to MaxMdLen over the
\* characters the patterns of looksLikeMarkdown tell apart, and some longer
\* ones: the tilde fence, a "+" bullet, headings of six and of seven "#", and
\* HTML fragments.
MaxMdLen == 5
MdChars == {"*", "#", "-", " ", "\n", "a", BQ}
Hashes(k) == [j \in 1..k |-> "#"]
DivFragment == <<"<", "d", "i", "v", ">", "a", "-", "b", "<", "/", "d", "i", "v", ">">>
MdInputs ==
  SeqsUpTo(MdChars, MaxMdLen)
    \cup {TL3, <<"+", " ", "a">>, <<"a", "+", " ">>, Clean, Padded, Bold,
          Fenced, DivFragment}
    \cup {Hashes(k) \o <<" ", "a">> : k \in 6..7}

InitMarkdown ==
  /\ env = RequiredNames
  /\ \E x \in MdInputs :
       inv = [n \in {1} |-> [Idle EXCEPT !.stage = "markdown", !.pc = "text",
                                         !.arg = x]]

ApplyLooksLikeMarkdown(n) ==
  /\ inv[n].stage = "markdown"
  /\ inv[n].pc = "text"
  /\ Set(n, [inv[n] EXCEPT !.pc = "done",
                           !.flag = looksLikeMarkdown(inv[n].arg)])

NextMarkdown == \E n \in DOMAIN inv : ApplyLooksLikeMarkdown(n)

SpecMarkdown == InitMarkdown /\ [][NextMarkdown]_vars

\* ------------------------------------------- the message builder

DataPrefix == <<"d", "a", "t", "a", ":">>
Base64Sep == <<";", "b", "a", "s", "e", "6", "4", ",">>

\* The first position at or after i that holds a comma (Len(s) + 1 if none).
RECURSIVE NextComma(_, _)
NextComma(s, i) ==
  IF i > Len(s) \/ s[i] = "," THEN i ELSE NextComma(s, i + 1)

\* base64.split(",")[1]: what lies between the first comma and the second
\* (or the end).
SplitSecond(s) ==
  LET a == NextComma(s, 1)
      b == NextComma(s, a + 1)
  IN SubSeq(s, a + 1, b - 1)

\* const clean = base64.includes(",") ? base64.split(",")[1] : base64;
\* return "data:<mime>;base64,<clean>"
toDataUrlUnstripped(base64, mime) == DataPrefix \o mime \o Base64Sep \o base64
toDataUrl(base64, mime) ==
  LET clean == IF NextComma(base64, 1) <= Len(base64)
               THEN SplitSecond(base64)
               ELSE base64
  IN DataPrefix \o mime \o Base64Sep \o clean

\* The label put before the supplementary text ("\n\n", the bracketed
\* caption, "\n"); the caption is one token here.
TextLabel == <<"\n", "\n", "caption", "\n">>

TextPart(t) == [type |-> "text", text |-> t, url |-> <<>>]
ImagePart(u) == [type |-> "image_url", text |-> <<>>, url |-> u]

\* if (options.image?.base64 && options.image?.mimeType)
HasImage(options) ==
  options.image.set /\ options.image.base64 # <<>> /\ options.image.mimeType # <<>>

\* if (options.text?.trim())
HasTextUntrimmed(options) == options.text.set /\ options.text.v # <<>>
HasText(options) == options.text.set /\ Trim(options.text.v) # <<>>

buildUserMessage(prompt, options) ==
  LET parts0 == <<TextPart(prompt)>>
      parts1 == IF HasImage(options)
                THEN Append(parts0,
                            ImagePart(toDataUrl(options.image.base64,
                                                options.image.mimeType)))
                ELSE parts0
      parts2 == IF HasText(options)
                THEN Append(parts1, TextPart(TextLabel \o Trim(options.text.v)))
                ELSE parts1
  IN <<[role |-> "user", content |-> parts2]>>

\* The options tried. An image body is a comma-free base64 text, given bare,
\* with the data-URI prefix of its own MIME type, with that of another type,
\* or followed by a comma and more; body and form are kept beside the
\* options.
Png == <<"i", "/", "p">>
Jpeg == <<"i", "/", "j">>
MaxBodyLen == 2
Bodies == SeqsUpTo({"A", "="}, MaxBodyLen)
Forms == {"bare", "prefixed", "otherPrefix", "trailing"}
Shaped(body, mime, form) ==
  CASE form = "prefixed" -> DataPrefix \o mime \o Base64Sep \o body
    [] form = "otherPrefix" -> DataPrefix \o Jpeg \o Base64Sep \o body
    [] form = "trailing" -> DataPrefix \o mime \o Base64Sep \o body \o <<",", "A">>
    [] OTHER -> body
NoImage == [set |-> FALSE, base64 |-> <<>>, mimeType |-> <<>>]
OptionTexts == {Unset, Val(<<>>), Val(Blank), Val(Padded), Val(Clean)}
Prompts == {<<"p">>}

InitMessage ==
  /\ env = RequiredNames
  /\ \E prompt \in Prompts, b \in Bodies, f \in Forms, t \in OptionTexts,
        use \in {"bare image", "no mime", "no image"} :
       inv = [n \in {1} |->
                [Idle EXCEPT
                   !.stage = "message", !.pc = "text",
                   !.arg = [prompt |-> prompt, body |-> b, form |-> f,
                            text |-> t,
                            image |->
                              CASE use = "no image" -> NoImage
                                [] use = "no mime" ->
                                     [set |-> TRUE, base64 |-> b,
                                      mimeType |-> <<>>]
                                [] OTHER ->
                                     [set |-> TRUE,
                                      base64 |-> Shaped(b, Png, f),
                                      mimeType |-> Png]]]]

\* toDataUrl(options.image.base64, options.image.mimeType) on its own.
ApplyToDataUrl(n) ==
  /\ inv[n].stage = "message"
  /\ inv[n].pc = "text"
  /\ inv[n].arg.image.set
  /\ Set(n, [inv[n] EXCEPT
               !.pc = "url",
               !.first[1] = Val(toDataUrl(inv[n].arg.image.base64,
                                          inv[n].arg.image.mimeType))])

ApplyBuildUserMessage(n) ==
  /\ inv[n].stage = "message"
  /\ inv[n].pc \in {"text", "url"}
  /\ Set(n, [inv[n] EXCEPT
               !.pc = "done",
               !.res = Returned(buildUserMessage(inv[n].arg.prompt, inv[n].arg))])

NextMessage ==
  \/ \E n \in DOMAIN inv : ApplyToDataUrl(n)
  \/ \E n \in DOMAIN inv : ApplyBuildUserMessage(n)

SpecMessage == InitMessage /\ [][NextMessage]_vars

\* ------------------------------------------------------ termination

\* The steps of an invocation once it is made: those of the code, which runs
\* whenever it can, and those of its environment, under the assumption that
\* every transport call is settled (fetch resolves, rejects or is aborted by
\* the timer; the body arrives or its reading is aborted) and every backoff
\* sleep ends.
Steps ==
  \/ \E n \in DOMAIN inv : RetryAttempt(n)
  \/ \E n \in DOMAIN inv : RetryExhausted(n)
  \/ \E n \in DOMAIN inv : RetrySleep(n)
  \/ \E n \in DOMAIN inv : FetchHeaders(n)
  \/ \E n \in DOMAIN inv : FetchTimeout(n)
  \/ \E n \in DOMAIN inv : FetchNetworkError(n)
  \/ \E n \in DOMAIN inv : FetchContent(n)
  \/ \E n \in DOMAIN inv : FetchNonString(n)
  \/ \E n \in DOMAIN inv : FetchStatus(n)
  \/ \E n \in DOMAIN inv : BodyAborted(n)

SpecLive == Init /\ [][Next]_vars /\ WF_vars(Steps)

\* ------------------------------------------------ the Netlify functions

\* The four forwarding functions: the ES-module tts function and the CommonJS
\* and ES-module llm functions of netlify/functions/tts.js, and the CommonJS
\* tts function of unnamed/part_002.
FnHandlers == {"ttsEsm", "llmCjs", "llmEsm", "ttsCjs"}
IsCjs(h) == h \in {"llmCjs", "ttsCjs"}
IsTts(h) == h \in {"ttsEsm", "ttsCjs"}

FnEnvNames == {"API_BASE", "API_KEY"}

\* The request bodies tried: text that is no JSON, no body at all, the JSON
\* null, a JSON number, and JSON objects with or without the fields endpoint, payload and
\* text. An object stands for itself under its id when it is forwarded.
NoBody(kind) ==
  [kind |-> kind, id |-> "{}", endpoint |-> "none", payload |-> "none",
   text |-> Unset]
RequestBodies ==
  {NoBody(k) : k \in {"invalid", "empty", "null", "number"}}
    \cup [kind : {"object"}, id : {"B"}, endpoint : {"none", "embeddings"},
          payload : {"none", "P"},
          text : {Unset, Val(<<>>), Val(<<" ">>), Val(<<"h", "i", " ">>)}]

\* input: text.slice(0, 2000)
TtsInputLimit == 2000

\* A response of a function: its status, how its body is made (a message of
\* the function, the upstream body verbatim, a JSON object around the upstream
\* body, the parsed upstream JSON, the audio in base64, the stack of a caught
\* exception) and the upstream body it is made of.
Resp(status, form, of) == [status |-> status, form |-> form, of |-> of]

\* One invocation of a function.
\*   sent     the requests sent upstream: endpoint, JSON body, speech input
\*   upstream the status of the upstream response received, 0 before it
\*   threw    the exception raised while handling, if any
\*   out      the responses returned
FnIdle(h, req) ==
  [handler |-> h, pc |-> "start", req |-> req, sent |-> <<>>,
   upstream |-> 0, threw |-> "none", out |-> <<>>]

Reply(r, resp) == [r EXCEPT !.pc = "done", !.out = Append(@, resp)]

\* catch (e) { return <500 with String(e?.stack || e)> }
CrashUnhandled(r, why) == [r EXCEPT !.threw = why, !.pc = "done"]
Crash(r, why) ==
  Reply([r EXCEPT !.threw = why], Resp(500, "stack", "none"))

\* await fetch(url, { method: "POST", ..., body: JSON.stringify(...) })
Forward(r, endpoint, body, input) ==
  [r EXCEPT !.pc = "fetch",
            !.sent = Append(@, [endpoint |-> endpoint, json |-> body,
                                input |-> input])]

\* JSON.parse(event.body || "{}") of the CommonJS functions: no body reads as
\* the empty object.
ParsedCjs(body) == IF body.kind = "empty" THEN NoBody("object") ELSE body

\* if (!text)
TextMissingUntrimmed(t) == ~t.set \/ t.v = <<>>
TextMissing(t) == ~t.set \/ Trim(t.v) = <<>>

\* The default function of netlify/functions/tts.js, lines 1-37.
HandleTtsEsm(r, e) ==
  LET body == r.req.body IN
  CASE r.req.method # "POST" -> Reply(r, Resp(405, "message", "none"))
    [] body.kind \in {"invalid", "empty"} -> Crash(r, "requestJson")
    [] FnEnvNames \ e # {} -> Reply(r, Resp(500, "message", "none"))
    [] TextMissingUntrimmed(body.text) -> Reply(r, Resp(400, "message", "none"))
    [] OTHER -> Forward(r, "audio/speech", "speech", body.text.v)

\* exports.handler of unnamed/part_002, lines 13-48.
HandleTtsCjs(r, e) ==
  LET body == ParsedCjs(r.req.body) IN
  CASE r.req.method = "OPTIONS" -> Reply(r, Resp(200, "message", "none"))
    [] r.req.method # "POST" -> Reply(r, Resp(405, "message", "none"))
    [] FnEnvNames \ e # {} -> Reply(r, Resp(500, "message", "none"))
    [] body.kind = "invalid" -> Crash(r, "requestJson")
    [] body.kind = "null" -> Crash(r, "nullBody")
    [] TextMissing(body.text) -> Reply(r, Resp(400, "message", "none"))
    [] OTHER ->
         LET text == Trim(body.text.v) IN
         Forward(r, "audio/speech", "speech",
                 SubSeq(text, 1, Min(Len(text), TtsInputLimit)))

\* const payload = body.payload || body
PayloadOrEmpty(body) == IF body.payload = "none" THEN "{}" ELSE body.payload
PayloadOrBody(body) == IF body.payload = "none" THEN body.id ELSE body.payload

\* const endpoint = body.endpoint || "chat/completions"
EndpointOf(body) ==
  IF body.endpoint = "none" THEN "chat/completions" ELSE body.endpoint

\* exports.handler of netlify/functions/tts.js, lines 75-118.
HandleLlmCjs(r, e) ==
  LET body == ParsedCjs(r.req.body) IN
  CASE r.req.method = "OPTIONS" -> Reply(r, Resp(200, "message", "none"))
    [] r.req.method # "POST" -> Reply(r, Resp(405, "message", "none"))
    [] FnEnvNames \ e # {} -> Reply(r, Resp(500, "message", "none"))
    [] body.kind = "invalid" ->
         Reply([r EXCEPT !.threw = "requestJson"], Resp(400, "message", "none"))
    [] body.kind = "null" -> Crash(r, "nullBody")
    [] body.kind = "number" -> Reply(r, Resp(400, "message", "none"))
    [] OTHER -> Forward(r, EndpointOf(body), PayloadOrBody(body), <<>>)

\* The second default function of netlify/functions/tts.js, lines 155-182:
\* const { endpoint = "chat/completions", payload } = await req.json(), and
\* body: JSON.stringify(payload ?? {}).
HandleLlmEsm(r, e) ==
  LET body == r.req.body IN
  CASE r.req.method # "POST" -> Reply(r, Resp(405, "message", "none"))
    [] body.kind \in {"invalid", "empty"} -> Crash(r, "requestJson")
    [] body.kind = "null" -> Crash(r, "nullBody")
    [] FnEnvNames \ e # {} -> Reply(r, Resp(500, "message", "none"))
    [] OTHER -> Forward(r, EndpointOf(body), PayloadOrEmpty(body), <<>>)

Handle(r, e) ==
  CASE r.handler = "ttsEsm" -> HandleTtsEsm(r, e)
    [] r.handler = "ttsCjs" -> HandleTtsCjs(r, e)
    [] r.handler = "llmCjs" -> HandleLlmCjs(r, e)
    [] OTHER -> HandleLlmEsm(r, e)

\* The statuses of an upstream error, and the bodies of an upstream
\* response: JSON or not.
FnStatuses == {404, 503}
UpstreamBodies == {"json", "text"}

\* status: upstream.status
GenericStatus(status) == IF status \in OkStatuses THEN status ELSE 502
StatusOut(status) == status

\* The upstream response has arrived and its body is read: what each function
\* returns (tts.js 39-54, 120-143, 184-193; part_002 50-60).
OnUpstream(r0, status, body) ==
  LET r == [r0 EXCEPT !.upstream = status] IN
  CASE status \notin OkStatuses ->
         Reply(r, Resp(StatusOut(status),
                       IF IsCjs(r.handler) THEN "errorJson" ELSE "verbatim",
                       body))
    [] IsTts(r.handler) -> Reply(r, Resp(200, "audio", body))
    [] r.handler = "llmEsm" -> Reply(r, Resp(StatusOut(status), "verbatim", body))
    [] body = "json" -> Reply(r, Resp(200, "json", body))
    [] OTHER ->
         Reply([r EXCEPT !.threw = "upstreamJson"], Resp(200, "verbatim", body))

\* A request arrives at a function.
FnHandle(n) ==
  /\ inv[n].pc = "start"
  /\ Set(n, Handle(inv[n], env))

FnUpstreamReplies(n) ==
  /\ inv[n].pc = "fetch"
  /\ \E status \in OkStatuses \cup FnStatuses, body \in UpstreamBodies :
       Set(n, OnUpstream(inv[n], status, body))

\* fetch rejects, or the reading of the upstream body does.
FnUpstreamFails(n) ==
  /\ inv[n].pc = "fetch"
  /\ \E why \in {"network", "bodyRead"} : Set(n, Crash(inv[n], why))

InitFunctions ==
  /\ env \in SUBSET FnEnvNames
  /\ \E h \in FnHandlers, m \in {"POST", "GET", "OPTIONS"}, b \in RequestBodies :
       inv = [n \in {1} |-> FnIdle(h, [method |-> m, body |-> b])]

NextFunctions ==
  \/ \E n \in DOMAIN inv : FnHandle(n)
  \/ \E n \in DOMAIN inv : FnUpstreamReplies(n)
  \/ \E n \in DOMAIN inv : FnUpstreamFails(n)

SpecFunctions == InitFunctions /\ [][NextFunctions]_vars

\* ---------------------------------------------- withRetry on its own

\* The bounds of the cases tried: maxRetry in 0..MaxRetryArg, and an operation
\* that fails k times, k in 0..MaxFailures, before it returns.
MaxRetryArg == 3
MaxFailures == 5

\* What the wrapped operation may return and the kinds of error it may raise.
FnValues == {Clean, Bold}
FnErrKinds == {"Upstream", "Timeout", "Config"}

InitRetry ==
  /\ env = RequiredNames
  /\ \E m \in 0..MaxRetryArg, k \in 0..MaxFailures, val \in FnValues :
       inv = [n \in {1} |->
                withRetryStart(
                  [Idle EXCEPT !.stage = "withRetry",
                               !.script = [k |-> k, val |-> val]],
                  m)]

\* try { return await fn() } catch (e) ..., for an operation that raises
\* an error on each of its first k invocations and returns val afterwards.
CallFn(n) ==
  /\ inv[n].pc = "loop"
  /\ inv[n].stage = "withRetry"
  /\ LoopCond(inv[n])
  /\ LET r1 == [inv[n] EXCEPT !.calls = @ + 1] IN
     IF r1.calls <= r1.script.k
     THEN \E kind \in FnErrKinds :
            LET e == Err(kind, 0, 0, r1.calls) IN
            Set(n, Catch([r1 EXCEPT !.raised = Append(@, e)], e))
     ELSE Set(n, Return(r1, r1.script.val))

NextRetry ==
  \/ \E n \in DOMAIN inv : CallFn(n)
  \/ \E n \in DOMAIN inv : RetrySleep(n)
  \/ \E n \in DOMAIN inv : RetryExhausted(n)

SpecRetry == InitRetry /\ [][NextRetry]_vars

\* -------------------------------------------------------------- claims

TotalReqs(r, b) == r.reqs[b].primary + r.reqs[b].repair

\* C1: withRetry on an operation that fails on its first k invocations and
\* returns a value on invocation k+1 ends with that value when maxRetry >= k
\* and with an error, and no value, when maxRetry < k.
C1_ReturnsIffBudgetCovers ==
  \A n \in DOMAIN inv :
    LET r == inv[n] IN
    (r.stage = "withRetry" /\ r.pc = "done") =>
      IF r.maxRetry >= r.script.k
      THEN r.res = Returned(r.script.val)
      ELSE r.res.t = "error" /\ r.res.v = <<>> /\ r.res.e # NoErr

\* The budget just covers the failures: k = maxRetry = 2, and the value is
\* returned.
C1_Witness ==
  \E n \in DOMAIN inv :
    /\ inv[n].stage = "withRetry" /\ inv[n].pc = "done"
    /\ inv[n].script.k = 2 /\ inv[n].maxRetry = 2
    /\ inv[n].res = Returned(inv[n].script.val)

\* C2: withRetry invokes the operation at most maxRetry + 1 times, exactly
\* (failures before the first success) + 1 times when it returns a value, and
\* not once more after an invocation has returned.
C2_InvocationCount ==
  \A n \in DOMAIN inv :
    LET r == inv[n] IN
    r.stage = "withRetry" =>
      /\ r.calls <= r.maxRetry + 1
      /\ r.calls = Len(r.raised) + r.okCalls
      /\ r.okCalls <= 1
      /\ r.okCalls = 1 => (r.pc = "done" /\ r.res.t = "value")
      /\ r.res.t = "value" =>
           (r.okCalls = 1 /\ r.calls = r.script.k + 1 /\ Len(r.raised) = r.script.k)

\* Two failures, then the value on the third invocation.
C2_Witness ==
  \E n \in DOMAIN inv :
    /\ inv[n].stage = "withRetry" /\ inv[n].res.t = "value"
    /\ inv[n].calls = 3 /\ Len(inv[n].raised) = 2 /\ inv[n].maxRetry = 3

\* C3: when every attempt fails, the error withRetry raises is the error of
\* the last, (maxRetry+1)-th, invocation, the very object and not an earlier
\* one or a new one.
C3_RaisesLastFailure ==
  \A n \in DOMAIN inv :
    LET r == inv[n] IN
    (r.stage = "withRetry" /\ r.pc = "done" /\ r.res.t = "error") =>
      /\ Len(r.raised) = r.maxRetry + 1
      /\ r.res.e = r.raised[r.maxRetry + 1]
      /\ r.res.e.at = r.maxRetry + 1

\* Three failures of three kinds, the last of them raised.
C3_Witness ==
  \E n \in DOMAIN inv :
    LET r == inv[n] IN
    /\ r.stage = "withRetry" /\ r.pc = "done" /\ r.res.t = "error"
    /\ r.maxRetry = 2 /\ Len(r.raised) = 3
    /\ r.raised[1].kind = "Config" /\ r.raised[2].kind = "Upstream"
    /\ r.res.e.kind = "Timeout"

\* C4: in solveProblem and in each drills batch a repair round is started if
\* and only if the primary generation returned, within its budget, and
\* looksLikeMarkdown holds of its fence-stripped output; at most one is started,
\* and no repair request is issued otherwise.
C4_RepairIffMarkdown ==
  \A n \in DOMAIN inv :
    LET r == inv[n] IN
    r.stage \in {"solve", "drills"} =>
      \A b \in Batches :
        /\ r.repairs[b] =
             IF r.first[b].set /\ looksLikeMarkdown(r.first[b].v) THEN 1 ELSE 0
        /\ r.reqs[b].repair > 0 => r.repairs[b] = 1
        /\ r.first[b].set =>
             r.reqs[b].primary \in 1..(MaxRetryOf(r.stage, "primary") + 1)
        /\ (r.round = "repair" /\ r.calls = 0 /\ b = BatchOf(r)) =>
             (r.lastReply.set /\ r.first[b].v = stripCodeFences(r.lastReply.v))

\* A drills call whose first batch was repaired and whose second batch passed
\* the check.
C4_Witness ==
  \E n \in DOMAIN inv :
    LET r == inv[n] IN
    /\ r.stage = "drills" /\ r.pc = "done"
    /\ r.repairs[1] = 1 /\ r.reqs[1].repair > 0
    /\ r.first[2].set /\ r.repairs[2] = 0 /\ r.reqs[2].repair = 0

\* C5: the output of a repair round that succeeds is the result of the stage,
\* or of the batch, whether or not looksLikeMarkdown still holds of it: no
\* second round, no error.
C5_RepairedReturnedAsIs ==
  \A n \in DOMAIN inv :
    LET r == inv[n] IN
    \A b \in Batches :
      r.fix[b].set =>
        /\ r.repairs[b] = 1
        /\ r.fix[b].v # <<>>
        /\ r.stage = "solve" =>
             /\ r.pc = "done"
             /\ r.res = Returned(r.fix[b].v)
             /\ r.fix[b].v = stripCodeFences(r.lastReply.v)
        /\ r.stage = "drills" => r.parts[b] = r.fix[b]
        /\ (r.stage = "drills" /\ r.pc = "done" /\ b = 2) => r.res.t = "value"

\* solveProblem returned a repaired text that is still markdown-like.
C5_Witness ==
  \E n \in DOMAIN inv :
    LET r == inv[n] IN
    /\ r.stage = "solve" /\ r.pc = "done" /\ r.fix[1].set
    /\ looksLikeMarkdown(r.fix[1].v)
    /\ r.res = Returned(r.fix[1].v)

\* Scenario B: the first attempt of the solve stage returned "**a**".
ScenarioB(r) ==
  /\ r.stage = "solve" /\ r.pc = "done" /\ r.res.t = "value"
  /\ r.first[1] = Val(Bold) /\ r.reqs[1].primary = 1

\* C6 as stated: in scenario B one repair round is run and the result
\* solveProblem returns holds no markdown marker, whatever the upstream replies
\* to the repair request.
C6_Original ==
  \A n \in DOMAIN inv :
    ScenarioB(inv[n]) =>
      (inv[n].repairs[1] = 1 /\ ~looksLikeMarkdown(inv[n].res.v))

\* C6 as amended: in scenario B exactly one repair round is run, of at most
\* two requests, and the result solveProblem returns is the fence-stripped
\* reply to the repair request: it holds no markdown marker if and only if
\* that reply holds none once stripped.
C6_RepairedIsStrippedReply ==
  \A n \in DOMAIN inv :
    LET r == inv[n] IN
    ScenarioB(r) =>
      /\ r.repairs[1] = 1
      /\ r.reqs[1].repair \in 1..(MaxRetryOf("solve", "repair") + 1)
      /\ r.lastReply.set
      /\ r.res.v = stripCodeFences(r.lastReply.v)

\* Scenario B with a clean reply to the repair request.
C6_Witness ==
  \E n \in DOMAIN inv :
    /\ ScenarioB(inv[n])
    /\ inv[n].reqs[1].repair = 1
    /\ inv[n].res.v = Clean

\* The final output of batch b: of its repair round if one ran, otherwise of
\* its primary generation.
FinalOf(r, b) == IF r.repairs[b] = 1 THEN r.fix[b] ELSE r.first[b]

\* C7 as stated: generateDrills returns batch 1's final output followed by
\* batch 2's, and nothing else.
C7_Original ==
  \A n \in DOMAIN inv :
    LET r == inv[n] IN
    (r.stage = "drills" /\ r.res.t = "value") =>
      r.res.v = FinalOf(r, 1).v \o FinalOf(r, 2).v

\* C7 as amended: generateDrills returns batch 1's final output, one newline,
\* then batch 2's final output.
C7_JoinedByNewline ==
  \A n \in DOMAIN inv :
    LET r == inv[n] IN
    (r.stage = "drills" /\ r.res.t = "value") =>
      /\ FinalOf(r, 1).set /\ FinalOf(r, 2).set
      /\ r.res.v = FinalOf(r, 1).v \o <<"\n">> \o FinalOf(r, 2).v

\* Two batches of different outputs, the first one repaired.
C7_Witness ==
  \E n \in DOMAIN inv :
    LET r == inv[n] IN
    /\ r.stage = "drills" /\ r.res.t = "value"
    /\ r.repairs[1] = 1 /\ r.fix[1].v = Clean /\ r.first[2].v = BT3

\* C8: no request of batch 2 is issued before batch 1 has returned, and once
\* a request of batch 2 is issued batch 1 issues none: a step that issues a
\* request of batch 2 starts with batch 1 returned and nothing in flight.
C8_BatchesSequential ==
  [][\A n \in DOMAIN inv :
       LET r == inv[n] s == inv'[n] IN
       r.stage = "drills" =>
         /\ s.reqs[2] # r.reqs[2] =>
              (r.parts[1].set /\ r.inFlight = 0 /\ s.reqs[1] = r.reqs[1])
         /\ s.reqs[1] # r.reqs[1] => (TotalReqs(r, 2) = 0 /\ ~r.parts[1].set)
    ]_vars

\* Batch 2 is under way after a batch 1 whose repair round was retried.
C8_Witness ==
  \E n \in DOMAIN inv :
    LET r == inv[n] IN
    /\ r.stage = "drills" /\ r.pc = "fetch"
    /\ r.reqs[2].primary = 1 /\ r.reqs[1].primary > 1 /\ r.reqs[1].repair > 1

\* C9: generateDrills has no partial success: it returns a value only when
\* both batches returned; when the last attempt of a primary generation or of a
\* repair round fails it ends with that failure and no text; a failed batch 1
\* leaves batch 2 without a request.
C9_NoPartialSuccess ==
  \A n \in DOMAIN inv :
    LET r == inv[n] IN
    (r.stage = "drills" /\ r.pc = "done") =>
      /\ r.res.t = "value" <=> (r.parts[1].set /\ r.parts[2].set)
      /\ r.res.t = "error" <=> (r.okCalls = 0 /\ r.i = r.maxRetry + 1)
      /\ r.res.t = "error" =>
           /\ r.res.v = <<>>
           /\ r.res.e = r.lastErr
           /\ r.res.e.at = r.maxRetry + 1
      /\ ~r.parts[1].set => TotalReqs(r, 2) = 0

\* Batch 1 returned and batch 2 used up its retries: the call failed.
C9_Witness ==
  \E n \in DOMAIN inv :
    LET r == inv[n] IN
    /\ r.stage = "drills" /\ r.pc = "done" /\ r.res.t = "error"
    /\ r.parts[1].set /\ r.reqs[2].primary = 4

\* What a stage makes of the content of a reply before it tests it.
Extracted(stage, c) == IF stage = "verify" THEN Trim(c) ELSE stripCodeFences(c)

\* C10: verifyProblem, solveProblem, analyzeProblemHistory and generateDrills
\* return no text that is empty once trimmed, nor is a drills part; a reply
\* whose extracted content is empty is a failure of the attempt.
C10_NoEmptyResult ==
  \A n \in DOMAIN inv :
    LET r == inv[n] IN
    r.stage \in {"verify", "solve", "analyze", "drills"} =>
      /\ r.res.t = "value" => Trim(r.res.v) # <<>>
      /\ \A b \in Batches :
           /\ r.parts[b].set => Trim(r.parts[b].v) # <<>>
           /\ r.first[b].set => Trim(r.first[b].v) # <<>>
      /\ (r.lastReply.set /\ Extracted(r.stage, r.lastReply.v) = <<>>) =>
           (r.lastErr.kind = "Empty" /\ r.lastErr.at = r.calls /\ r.res.t # "value")

\* A reply that is only a fence: empty once stripped, and the attempt failed.
C10_Witness ==
  \E n \in DOMAIN inv :
    LET r == inv[n] IN
    /\ r.stage = "solve" /\ r.pc = "sleep"
    /\ r.lastReply = Val(BT3) /\ r.lastErr.kind = "Empty"

\* C11 as stated: in solveProblem, once a reply is empty after fence
\* stripping the failure is not retried: no request of the round follows the
\* attempt that failed so.
C11_Original ==
  \A n \in DOMAIN inv :
    LET r == inv[n] IN
    (r.stage = "solve" /\ r.lastErr.kind = "Empty") =>
      r.reqs[1][r.round] = r.lastErr.at

\* C11: in solveProblem a reply that is empty after fence stripping fails its
\* attempt with the empty-content failure and gives no value; the failure is
\* retried like any other while the round has retries left, and solveProblem
\* fails with it, unchanged, only when it is the failure of the last attempt of
\* the round (attempt maxRetry + 1).
C11_EmptyRetriedWithinBudget ==
  \A n \in DOMAIN inv :
    LET r == inv[n] IN
    (r.stage = "solve" /\ r.lastErr.kind = "Empty") =>
      /\ r.lastErr.at <= r.reqs[1][r.round]
      /\ r.reqs[1][r.round] <= MaxRetryOf("solve", r.round) + 1
      /\ (r.lastErr.at <= r.maxRetry /\ r.pc = "done") => r.res.t = "value"
      /\ (r.pc = "done" /\ r.res.t = "error") =>
           /\ r.res.e = r.lastErr
           /\ r.lastErr.at = MaxRetryOf("solve", r.round) + 1
           /\ r.reqs[1][r.round] = MaxRetryOf("solve", r.round) + 1
           /\ r.lastReply.set /\ stripCodeFences(r.lastReply.v) = <<>>

\* solveProblem returned a value after a reply that was empty once stripped:
\* the empty-content failure was retried.
C11_Witness ==
  \E n \in DOMAIN inv :
    LET r == inv[n] IN
    /\ r.stage = "solve" /\ r.pc = "done" /\ r.res.t = "value"
    /\ r.lastErr.kind = "Empty" /\ r.reqs[1][r.round] = r.lastErr.at + 1

\* C12: verifyProblem (maxRetry 2) whose first two attempts each got a reply
\* of empty content has not given up after them, and when its third attempt
\* gets a reply that is not empty once trimmed it returns exactly that reply
\* trimmed, three requests having been issued.
C12_ScenarioA ==
  \A n \in DOMAIN inv :
    LET r == inv[n] IN
    (r.stage = "verify" /\ r.streak = "empty" /\ r.lastErr.at = 2) =>
      /\ r.calls = 2 => r.res = Pending
      /\ (r.calls = 3 /\ r.lastReply.set /\ Trim(r.lastReply.v) # <<>>) =>
           /\ r.pc = "done"
           /\ r.res = Returned(Trim(r.lastReply.v))
           /\ r.reqs[1].primary = 3 /\ TotalReqs(r, 1) = 3

\* Two empty replies, then a padded one: its trimmed content was returned.
C12_Witness ==
  \E n \in DOMAIN inv :
    LET r == inv[n] IN
    /\ r.stage = "verify" /\ r.streak = "empty" /\ r.lastErr.at = 2
    /\ r.calls = 3 /\ r.lastReply = Val(Padded) /\ r.res = Returned(Clean)

\* C13 as stated: a stage all of whose attempts were cut by the abort timer
\* fails with the timeout failure, which carries the timeout of the last
\* attempt.
C13_Original ==
  \A n \in DOMAIN inv :
    LET r == inv[n] IN
    (r.pc = "done" /\ r.res.t = "error" /\ r.streak = "timer"
       /\ r.round = "primary" /\ BatchOf(r) = 1) =>
      /\ r.res.e.kind = "Timeout"
      /\ r.res.e.ms = TimeoutOf(r.stage, r.round)

\* C14 as stated: with VITE_API_BASE or VITE_API_KEY missing, verifyProblem,
\* solveProblem, analyzeProblemHistory and generateDrills fail with the
\* configuration failure after one attempt of their operation, without a
\* retry and without a backoff delay.
C14_Original ==
  \A n \in DOMAIN inv :
    LET r == inv[n] IN
    (MissingEnv(env) /\ r.stage \in {"verify", "solve", "analyze", "drills"}) =>
      /\ r.calls <= 1
      /\ r.delays = <<>>
      /\ r.pc = "done" => (r.res.t = "error" /\ r.res.e.kind = "Config")

\* The stages whose requests go through withRetry.
ChatStages == {"verify", "solve", "analyze", "drills"}

\* C15: withRetry does not look at the failure it catches: whatever its kind
\* (upstream non-2xx, timeout, network error, empty content, missing
\* configuration, type error), a failed attempt is followed by the delay of its
\* index and, while i <= maxRetry, by another attempt; the stage fails only
\* after maxRetry + 1 attempts and as many delays, for every kind.
C15_RetriesAreBlind ==
  \A n \in DOMAIN inv :
    LET r == inv[n] IN
    r.stage \in ChatStages =>
      /\ Len(r.delays) = r.i
      /\ \A j \in 1..Len(r.delays) : r.delays[j] = Backoff(j - 1)
      /\ r.pc = "sleep" =>
           /\ r.res = Pending
           /\ r.calls = r.i + 1 /\ r.lastErr.at = r.calls
           /\ r.i <= r.maxRetry
      /\ r.pc = "loop" => r.calls = r.i
      /\ (r.pc = "done" /\ r.res.t = "error") =>
           /\ r.calls = MaxRetryOf(r.stage, r.round) + 1
           /\ Len(r.delays) = r.calls
           /\ r.res.e.at = r.calls

\* verifyProblem failed for a missing configuration value after three
\* attempts, each followed by its delay.
C15_Witness ==
  \E n \in DOMAIN inv :
    LET r == inv[n] IN
    /\ r.stage = "verify" /\ r.pc = "done" /\ r.res.t = "error"
    /\ r.res.e.kind = "Config" /\ r.calls = 3 /\ Len(r.delays) = 3

\* C16: while VITE_API_BASE or VITE_API_KEY is not defined, no stage
\* (the four that use callChatCompletions, and generateSpeech) ever issues a
\* request: none is in flight and none was issued, whatever the number of
\* attempts made.
C16_NoRequestWithoutConfig ==
  ("VITE_API_BASE" \notin env \/ "VITE_API_KEY" \notin env) =>
    \A n \in DOMAIN inv :
      LET r == inv[n] IN
      /\ r.inFlight = 0 /\ ~r.timer
      /\ \A b \in Batches : TotalReqs(r, b) = 0
      /\ r.calls > 0 => r.lastErr.kind = "Config" \/ r.res.e.kind = "Config"

\* With only VITE_API_KEY missing, verifyProblem made its three attempts and
\* failed without a request.
C16_Witness ==
  \E n \in DOMAIN inv :
    LET r == inv[n] IN
    /\ env = {"VITE_API_BASE"}
    /\ r.stage = "verify" /\ r.pc = "done" /\ r.calls = 3
    /\ TotalReqs(r, 1) = 0

\* C17 as stated: the failure raised for a non-2xx response carries the status
\* and a detail of at most 2000 characters (the upper end of the truncation
\* bound), whatever the shape and length of the body.
C17_Original ==
  \A n \in DOMAIN inv :
    LET r == inv[n] IN
    r.lastErr.kind = "Upstream" =>
      /\ r.lastErr.status \in Statuses
      /\ r.lastErr.len <= 2000

\* The base and the cap of the delay, in milliseconds.
BaseMs == 600
CapMs == 4000

\* C18: the delay withRetry applied after failed attempt number i (the
\* i+1-th delay of the run) is min(CapMs, BaseMs * 2^i); the delays never
\* decrease from one attempt to the next and never exceed the cap.
C18_BackoffSchedule ==
  \A n \in DOMAIN inv :
    LET d == inv[n].delays IN
    \A j \in 1..Len(d) :
      /\ d[j] = IF BaseMs * 2^(j - 1) < CapMs THEN BaseMs * 2^(j - 1) ELSE CapMs
      /\ d[j] <= CapMs
      /\ j > 1 => d[j - 1] <= d[j]

\* Four failed attempts: the fourth delay is the cap, not 4800.
C18_Witness ==
  \E n \in DOMAIN inv :
    LET d == inv[n].delays IN
    Len(d) >= 4 /\ d[3] = 2400 /\ d[4] = CapMs

\* C19 as stated: when withRetry gives up after n failed attempts it has
\* applied n - 1 delays: none between the last failed attempt and the throw.
C19_Original ==
  \A n \in DOMAIN inv :
    LET r == inv[n] IN
    (r.pc = "done" /\ r.res.t = "error" /\ r.res.e = r.lastErr) =>
      Len(r.delays) = r.calls - 1

\* C20: in generateDrills every primary generation and every repair round
\* runs with its own budget, counted from zero: a primary generation fails only
\* after 1 + 3 requests of its own and a repair round only after 1 + 2 of its
\* own, whatever batch 1 or the primary generation of the same batch used up,
\* and no round issues more than that.
C20_IndependentBudgets ==
  \A n \in DOMAIN inv :
    LET r == inv[n] IN
    (r.stage = "drills" /\ RequiredNames \subseteq env) =>
      /\ \A b \in Batches : r.reqs[b].primary <= 4 /\ r.reqs[b].repair <= 3
      /\ r.pc \in {"loop", "sleep", "fetch", "body"} =>
           /\ r.reqs[BatchOf(r)][r.round] = r.calls
           /\ r.calls - r.i \in {0, 1}
      /\ (r.pc = "done" /\ r.res.t = "error") =>
           r.reqs[BatchOf(r)][r.round] = IF r.round = "primary" THEN 4 ELSE 3

\* Batch 1 used up all its attempts but the last of each round, and the repair
\* round of batch 2 still failed only after its three requests, which followed
\* four primary ones.
C20_Witness ==
  \E n \in DOMAIN inv :
    LET r == inv[n] IN
    /\ r.stage = "drills" /\ r.pc = "done" /\ r.res.t = "error"
    /\ r.reqs[1].primary = 4 /\ r.reqs[1].repair = 3
    /\ r.reqs[2].primary = 4 /\ r.reqs[2].repair = 3

\* C21 as stated: in solveProblem and generateDrills of either service, the
\* maxRetry of the withRetry that runs the repair round is strictly smaller
\* than the maxRetry passed for the primary generation.
C21_Original ==
  \A n \in DOMAIN inv :
    LET r == inv[n] IN
    (r.stage \in {"solve", "drills"} /\ r.round = "repair") =>
      r.maxRetry < Budget(r, "primary")

\* C22 as stated: analyzeProblemHistory has returned only after a corrective
\* request whenever its first generation was markdown-like, and never returns
\* a first generation that is markdown-like.
C22_Original ==
  \A n \in DOMAIN inv :
    LET r == inv[n] IN
    (r.stage = "analyze" /\ r.pc = "done" /\ r.res.t = "value") =>
      /\ looksLikeMarkdown(r.first[1].v) => r.reqs[1].repair >= 1
      /\ r.res.v = r.first[1].v => ~looksLikeMarkdown(r.res.v)

\* C23: verifyProblem never starts a repair round and never issues a repair
\* request, whatever the reply holds; its value is the trimmed content of the
\* reply of its only successful attempt, unchanged, markdown-like or not.
C23_VerifyUnvalidated ==
  \A n \in DOMAIN inv :
    LET r == inv[n] IN
    r.stage = "verify" =>
      /\ r.round = "primary" /\ r.repairs[1] = 0 /\ r.reqs[1].repair = 0
      /\ TotalReqs(r, 2) = 0
      /\ (r.pc = "done" /\ r.res.t = "value") =>
           /\ r.lastReply.set /\ r.res.v = Trim(r.lastReply.v)
           /\ r.res.v # <<>>
           /\ r.okCalls = 1 /\ r.reqs[1].primary = r.calls

\* verifyProblem returned a text with a bold span as it was.
C23_Witness ==
  \E n \in DOMAIN inv :
    LET r == inv[n] IN
    /\ r.stage = "verify" /\ r.pc = "done" /\ r.res = Returned(Bold)
    /\ looksLikeMarkdown(r.res.v) /\ r.reqs[1].repair = 0

\* C24 as stated: generateSpeech ends either with the non-empty audio_base64
\* of the response or with a failure; a response whose audio_base64 is absent
\* or empty never makes it return, and it never returns the empty string.
C24_Original ==
  \A n \in DOMAIN inv :
    LET r == inv[n] IN
    (r.stage = "speech" /\ r.pc = "done") =>
      /\ r.res.t = "value" => (r.res.v # <<>> /\ r.res.v = r.lastReply.v)
      /\ (r.lastReply.set /\ r.lastReply.v = <<>>) => r.res.t = "error"

\* C25 as stated: stripCodeFences applied to its own result returns it
\* unchanged, for every text.
C25_Original ==
  \A n \in DOMAIN inv :
    LET r == inv[n] IN
    (r.stage = "strip" /\ r.calls = 2) => r.res.v = r.first[1].v

\* The markers of C26, each stated on the text alone: a run of three
\* backticks or three tildes; two stars, a non-empty x within one line, two
\* stars; one to six "#" and a whitespace character from the start of a line;
\* a bullet character and a whitespace character, either at the very start of
\* a line or as the first characters of their line that are not blank.
MdFence(t) ==
  \E i \in 1..(Len(t) - 2) :
    t[i] \in {BQ, "~"} /\ t[i + 1] = t[i] /\ t[i + 2] = t[i]

MdBold(t) ==
  \E i \in 1..Len(t) : \E j \in (i + 3)..(Len(t) - 1) :
    /\ t[i] = "*" /\ t[i + 1] = "*" /\ t[j] = "*" /\ t[j + 1] = "*"
    /\ "\n" \notin {t[k] : k \in (i + 2)..(j - 1)}

MdHeading(t) ==
  \E i \in 1..Len(t) : \E k \in (i + 1)..Len(t) :
    /\ i = 1 \/ t[i - 1] = "\n"
    /\ k - i <= 6
    /\ {t[m] : m \in i..(k - 1)} = {"#"}
    /\ t[k] \in {" ", "\n"}

MdBulletAtLineStart(t) ==
  \E j \in 1..(Len(t) - 1) :
    /\ j = 1 \/ t[j - 1] = "\n"
    /\ t[j] \in {"-", "*", "+"} /\ t[j + 1] \in {" ", "\n"}

MdBulletFirstOnLine(t) ==
  \E j \in 1..(Len(t) - 1) :
    /\ t[j] \in {"-", "*", "+"} /\ t[j + 1] \in {" ", "\n"}
    /\ \A k \in 1..(j - 1) :
         "\n" \notin {t[m] : m \in k..(j - 1)} => t[k] = " "

\* C26 as stated: looksLikeMarkdown(t) is true exactly of the texts with a
\* fence, a bold span, a heading at the start of a line or a bullet marker at
\* the start of a line.
C26_Original ==
  \A n \in DOMAIN inv :
    LET r == inv[n] IN
    (r.stage = "markdown" /\ r.pc = "done") =>
      r.flag = (MdFence(r.arg) \/ MdBold(r.arg) \/ MdHeading(r.arg)
                  \/ MdBulletAtLineStart(r.arg))

\* C26: looksLikeMarkdown(t) is true exactly of the texts with a fence, a bold
\* span whose content is non-empty and within one line, one to six "#"
\* followed by whitespace at the start of a line, or a bullet marker followed
\* by whitespace that is the first non-blank of its line (indentation is
\* allowed); it is false of a clean fragment.
C26_MarkersDetected ==
  \A n \in DOMAIN inv :
    LET r == inv[n] IN
    (r.stage = "markdown" /\ r.pc = "done") =>
      /\ r.flag = (MdFence(r.arg) \/ MdBold(r.arg) \/ MdHeading(r.arg)
                     \/ MdBulletFirstOnLine(r.arg))
      /\ r.arg \in {Clean, Padded, DivFragment} => ~r.flag

\* An indented bullet was found markdown-like.
C26_Witness ==
  \E n \in DOMAIN inv :
    LET r == inv[n] IN
    /\ r.stage = "markdown" /\ r.pc = "done"
    /\ r.arg = <<" ", "-", " ", "a">> /\ r.flag

\* C27: buildUserMessage returns exactly one message, of role "user"; its
\* first part is the instruction text; an image part is there exactly when
\* options.image has a non-empty base64 and a non-empty mimeType, and then it
\* is the second part; a supplementary text part (label, then the trimmed
\* text) is there exactly when options.text is present and not blank, and then
\* it is the last part; there is no other part, so there are one to three
\* parts and none is an image when no image is given.
C27_MessageParts ==
  \A n \in DOMAIN inv :
    LET r == inv[n] IN
    (r.stage = "message" /\ r.pc = "done") =>
      LET msgs == r.res.v
          parts == msgs[1].content
          img == /\ r.arg.image.set
                 /\ Len(r.arg.image.base64) > 0
                 /\ Len(r.arg.image.mimeType) > 0
          txt == r.arg.text.set /\ \E k \in 1..Len(r.arg.text.v) :
                                      r.arg.text.v[k] \notin {" ", "\n"}
      IN /\ Len(msgs) = 1 /\ msgs[1].role = "user"
         /\ Len(parts) = 1 + (IF img THEN 1 ELSE 0) + (IF txt THEN 1 ELSE 0)
         /\ parts[1].type = "text" /\ parts[1].text = r.arg.prompt
         /\ img => parts[2].type = "image_url"
         /\ txt => /\ parts[Len(parts)].type = "text"
                   /\ SubSeq(parts[Len(parts)].text, 1, Len(TextLabel)) = TextLabel
                   /\ LET v == r.arg.text.v
                          t == SubSeq(parts[Len(parts)].text,
                                      Len(TextLabel) + 1,
                                      Len(parts[Len(parts)].text))
                      IN \E a \in 1..Len(v) : \E b \in a..Len(v) :
                           /\ t = SubSeq(v, a, b)
                           /\ v[a] \notin {" ", "\n"} /\ v[b] \notin {" ", "\n"}
                           /\ \A k \in 1..Len(v) :
                                (k < a \/ k > b) => v[k] \in {" ", "\n"}
         /\ ~img => \A k \in 1..Len(parts) : parts[k].type = "text"

\* An image and a padded text were given: three parts, in order.
C27_Witness ==
  \E n \in DOMAIN inv :
    LET r == inv[n] IN
    /\ r.stage = "message" /\ r.pc = "done"
    /\ r.arg.text = Val(Padded) /\ r.arg.image.mimeType = Png
    /\ Len(r.res.v[1].content) = 3
    /\ r.res.v[1].content[3].text = TextLabel \o Clean

\* C28: for a base64 body B without commas and a MIME type M,
\* toDataUrl(B, M) and toDataUrl("data:" + M + ";base64," + B, M) are both
\* "data:" + M + ";base64," + B: the prefix is there exactly once.
C28_DataUrlNormalised ==
  \A n \in DOMAIN inv :
    LET r == inv[n] IN
    (r.stage = "message" /\ r.first[1].set /\ r.arg.image.mimeType # <<>>
       /\ r.arg.form \in {"bare", "prefixed"}) =>
      LET url == r.first[1].v
          m == r.arg.image.mimeType
          k == Len(DataPrefix) + Len(m) + Len(Base64Sep)
      IN /\ SubSeq(url, 1, Len(DataPrefix)) = DataPrefix
         /\ SubSeq(url, Len(DataPrefix) + 1, Len(DataPrefix) + Len(m)) = m
         /\ SubSeq(url, Len(DataPrefix) + Len(m) + 1, k) = Base64Sep
         /\ SubSeq(url, k + 1, Len(url)) = r.arg.body

\* A body given with its data-URI prefix came back with one prefix.
C28_Witness ==
  \E n \in DOMAIN inv :
    LET r == inv[n] IN
    /\ r.stage = "message" /\ r.first[1].set /\ r.arg.form = "prefixed"
    /\ r.arg.body = <<"A", "A">>
    /\ r.arg.image.base64 = DataPrefix \o Png \o Base64Sep \o <<"A", "A">>
    /\ r.first[1].v = r.arg.image.base64

\* What an invocation's counters, remembered failure, repair decision and
\* result are when they come from its own requests alone: the attempts made
\* are the requests of the running round; the failure remembered is that of
\* one of them; a repair round was started exactly when the invocation's own
\* primary generation was markdown-like; a value returned is made of the
\* invocation's own generations, and a failure is that of its own last
\* attempt.
OwnOutcome(r) ==
  /\ r.pc # "idle" => r.calls = r.reqs[BatchOf(r)][r.round]
  /\ r.lastErr.at <= r.calls /\ r.i <= r.calls
  /\ \A b \in Batches :
       /\ r.repairs[b] = (IF r.first[b].set /\ looksLikeMarkdown(r.first[b].v)
                          THEN 1 ELSE 0)
       /\ r.reqs[b].repair > 0 => r.repairs[b] = 1
       /\ r.parts[b].set => r.parts[b].v = FinalOf(r, b).v
  /\ (r.pc = "done" /\ r.res.t = "value") =>
       r.res.v = (IF r.stage = "drills"
                  THEN FinalOf(r, 1).v \o <<"\n">> \o FinalOf(r, 2).v
                  ELSE FinalOf(r, 1).v)
  /\ (r.pc = "done" /\ r.res.t = "error") =>
       (r.res.e = r.lastErr /\ r.lastErr.at = r.calls)

\* C29: with two invocations interleaved at their suspension points, a step
\* of one leaves the other's state as it was, and each invocation's attempt
\* counter, remembered failure, repair decision and result are those its own
\* requests give.
C29_NoSharedState ==
  /\ [][\E n \in DOMAIN inv : \A m \in DOMAIN inv \ {n} : inv'[m] = inv[m]]_vars
  /\ [](\A n \in DOMAIN inv : OwnOutcome(inv[n]))

\* Both invocations are under way, each with its own attempt count and its
\* own remembered failure.
C29_Witness ==
  /\ inv[1].stage = "drills" /\ inv[1].pc = "sleep" /\ inv[1].calls = 2
  /\ inv[1].lastErr.at = 2 /\ inv[1].repairs[1] = 1
  /\ inv[2].stage = "solve" /\ inv[2].pc = "fetch" /\ inv[2].calls = 2
  /\ inv[2].lastErr.at = 1 /\ inv[2].round = "primary"

\* The failure the single attempt made so far ended with.
AttemptFailure(r) == IF r.res.t = "error" THEN r.res.e ELSE r.lastErr

\* C30 as stated: an attempt whose abort timer fired before the complete
\* response had arrived failed with the timeout failure; and once the call is
\* over, whatever its outcome, no timer is pending and no request is in
\* flight.
C30_Original ==
  \A n \in DOMAIN inv :
    LET r == inv[n] IN
    /\ (r.calls = 1 /\ r.streak = "timer") =>
         (AttemptFailure(r).kind = "Timeout"
            /\ AttemptFailure(r).ms = TimeoutOf(r.stage, r.round))
    /\ r.pc \notin {"fetch", "body"} => (~r.timer /\ r.inFlight = 0)

C32_Original ==
  \A n \in DOMAIN inv :
    LET r == inv[n]
        body == r.req.body
    IN  (~IsTts(r.handler) /\ body.kind = "object" /\ Len(r.sent) > 0) =>
          IF body.payload # "none"
            THEN /\ r.sent[1].json = body.payload
                 /\ r.sent[1].endpoint = EndpointOf(body)
            ELSE body.endpoint = "none" =>
                   /\ r.sent[1].json = body.id
                   /\ r.sent[1].endpoint = "chat/completions"

\* ---------------------------------------------------------------- C33
\* The requests an invocation has issued, over its batches and rounds.
AllReqs(r) == TotalReqs(r, 1) + TotalReqs(r, 2)

\* The bounds the claim names, for a stage and for one round of it.
ClaimedBound(stage) ==
  CASE stage = "verify" -> 3
    [] stage = "analyze" -> 3
    [] stage = "solve" -> 3 + 2
    [] stage = "drills" -> 2 * (4 + 3)
    [] OTHER -> 1
ClaimedRoundBound(stage, round) ==
  CASE stage = "solve" /\ round = "primary" -> 3
    [] stage = "solve" /\ round = "repair" -> 2
    [] stage = "drills" /\ round = "primary" -> 4
    [] stage = "drills" /\ round = "repair" -> 3
    [] stage \in {"verify", "analyze"} /\ round = "primary" -> 3
    [] stage = "speech" /\ round = "primary" -> 1
    [] OTHER -> 0

WithinBounds(r) ==
  /\ AllReqs(r) <= ClaimedBound(r.stage)
  /\ \A b \in Batches, round \in Rounds :
       r.reqs[b][round] <= ClaimedRoundBound(r.stage, round)
  /\ r.stage # "drills" => TotalReqs(r, 2) = 0

\* C33 (as stated): an invocation issues at most 3 (verify), 3 (analyze),
\* 3 + 2 (solve), 2 * (4 + 3) (drills) requests, and generateSpeech issues
\* exactly one.
C33_Original ==
  \A n \in DOMAIN inv :
    LET r == inv[n] IN
    r.stage \in Stages =>
      /\ WithinBounds(r)
      /\ (r.stage = "speech" /\ r.pc = "done") => AllReqs(r) = 1

\* C33 (amended): the same bounds hold at every moment of every invocation,
\* and a finished generateSpeech has issued exactly one request when the
\* configuration is complete and none when a required value is missing.
C33_BoundedWork ==
  \A n \in DOMAIN inv :
    LET r == inv[n] IN
    r.stage \in Stages =>
      /\ WithinBounds(r)
      /\ (r.stage = "speech" /\ r.pc = "done") =>
           AllReqs(r) = IF MissingEnv(env) THEN 0 ELSE 1

C33_Witness ==
  \E n \in DOMAIN inv :
    /\ inv[n].stage = "drills"
    /\ inv[n].pc = "done"
    /\ inv[n].res.t = "value"
    /\ AllReqs(inv[n]) = 14
    /\ \A b \in Batches : inv[n].reqs[b] = [primary |-> 4, repair |-> 3]

\* ---------------------------------------------------------------- C34
\* A request of the invocation is in flight: between the call of fetch and
\* the moment its outcome is known.
RequestInFlight(r) == r.pc \in {"fetch", "body"}

\* C34: an invocation has at most one request in flight, and exactly one
\* while it waits for a response. Whenever a request is in flight, every
\* earlier attempt of the running withRetry has failed and its backoff has
\* elapsed, a repair request has the primary generation's output before it,
\* and a request of batch 2 has the finished batch 1 before it.
C34_OneInFlight ==
  \A n \in DOMAIN inv :
    LET r == inv[n] IN
    r.stage \in Stages =>
      /\ r.inFlight = IF RequestInFlight(r) THEN 1 ELSE 0
      /\ RequestInFlight(r) =>
           /\ Len(r.delays) = r.calls - 1
           /\ r.i = r.calls - 1
           /\ r.calls > 1 => r.lastErr # NoErr
           /\ r.round = "repair" => r.first[BatchOf(r)].set
           /\ BatchOf(r) = 2 =>
                /\ r.parts[1].set
                /\ r.reqs[1].primary > 0

C34_Witness ==
  \E n \in DOMAIN inv :
    /\ inv[n].stage = "drills"
    /\ inv[n].pc = "fetch"
    /\ BatchOf(inv[n]) = 2
    /\ inv[n].round = "repair"
    /\ inv[n].calls = 2
    /\ inv[n].inFlight = 1

\* ---------------------------------------------------------------- C35
\* The text a batch (the stage, for solveProblem) gave back, if it has.
BatchResult(r, b) ==
  IF r.stage = "drills" THEN r.parts[b]
  ELSE IF b = 1 /\ r.res.t = "value" THEN Val(r.res.v) ELSE Unset

\* C35: what solveProblem or a drills batch gives back is the primary
\* generation's output when looksLikeMarkdown is false of it, and otherwise
\* the output of the repair round: a primary output of which the check holds
\* is given back only if the repair round returned it.
C35_PrimaryOnlyIfChecked ==
  \A n \in DOMAIN inv :
    LET r == inv[n] IN
    r.stage \in {"solve", "drills"} =>
      \A b \in Batches :
        BatchResult(r, b).set =>
          /\ r.first[b].set
          /\ IF looksLikeMarkdown(r.first[b].v)
             THEN r.fix[b].set /\ BatchResult(r, b) = r.fix[b]
             ELSE ~r.fix[b].set /\ BatchResult(r, b) = r.first[b]

\* generateDrills returned: batch 1 passed the check, batch 2 did not and
\* gave back another text, that of its repair round.
C35_Witness ==
  \E n \in DOMAIN inv :
    LET r == inv[n] IN
    /\ r.stage = "drills" /\ r.pc = "done" /\ r.res.t = "value"
    /\ ~looksLikeMarkdown(r.first[1].v) /\ r.parts[1] = r.first[1]
    /\ looksLikeMarkdown(r.first[2].v) /\ r.parts[2] = r.fix[2]
    /\ r.fix[2] # r.first[2]

\* ---------------------------------------------------------------- C36
\* The repair round of batch b was started and has not returned.
RepairUnreturned(r, b) == r.repairs[b] = 1 /\ ~r.fix[b].set

\* C36: when the invocation has ended with the repair round of a batch
\* started and never returned, each of its attempts has failed and the
\* invocation has failed with the failure of the last of them; the primary
\* output of that batch, markdown-like and not empty, is not the result, and
\* for generateDrills no part of the batch and no joined text exists.
C36_RepairExhaustedFails ==
  \A n \in DOMAIN inv :
    LET r == inv[n] IN
    \A b \in Batches :
      (r.stage \in {"solve", "drills"} /\ r.pc = "done"
         /\ RepairUnreturned(r, b)) =>
        /\ r.round = "repair" /\ BatchOf(r) = b
        /\ r.reqs[b].repair = MaxRetryOf(r.stage, "repair") + 1
        /\ r.calls = r.reqs[b].repair
        /\ r.res = Raised(r.lastErr)
        /\ r.lastErr.at = r.calls
        /\ r.lastErr.kind \in {"Upstream", "Timeout", "Empty", "Network", "TypeError"}
        /\ r.first[b].set /\ r.first[b].v # <<>>
        /\ looksLikeMarkdown(r.first[b].v)
        /\ ~r.parts[b].set

\* Batch 2 of generateDrills used up its repair round: the call failed, though
\* batch 1 and the primary generation of batch 2 had given texts.
C36_Witness ==
  \E n \in DOMAIN inv :
    LET r == inv[n] IN
    /\ r.stage = "drills" /\ r.pc = "done"
    /\ r.parts[1].set /\ RepairUnreturned(r, 2)
    /\ r.first[2] = Val(Bold)
    /\ r.res.t = "error" /\ r.res.e.kind = "Timeout" /\ r.res.e.at = 3

\* ---------------------------------------------------------------- C37
\* C37 (as stated): what stripCodeFences returns holds neither three
\* backticks in a row nor three tildes in a row, so the fence test of
\* looksLikeMarkdown is false of it.
C37_Original ==
  \A n \in DOMAIN inv :
    LET r == inv[n] IN
    (r.stage = "strip" /\ r.calls = 1) =>
      /\ ~Includes(r.res.v, BT3)
      /\ ~Includes(r.res.v, TL3)
      /\ ~HasFence(r.res.v)

\* ---------------------------------------------------------------- C38
Started == \E n \in DOMAIN inv : inv[n].pc # "idle"

\* The invocation has ended, with a result or with a failure and not both.
Ended(r) ==
  /\ r.pc = "done"
  /\ \/ r.res.t = "value" /\ r.res.e = NoErr
     \/ r.res.t = "error" /\ r.res.e # NoErr /\ r.res.v = <<>>

AllEnded == \A n \in DOMAIN inv : Ended(inv[n])

\* C38: every invocation of a stage that is made ends, with a returned result
\* or with a raised failure; until then it has no outcome, it never has both,
\* and once it has ended nothing of it changes.
C38_Terminates ==
  /\ Started ~> AllEnded
  /\ [](\A n \in DOMAIN inv :
          IF inv[n].pc = "done" THEN Ended(inv[n]) ELSE inv[n].res = Pending)
  /\ [][\A n \in DOMAIN inv : inv[n].pc = "done" => inv'[n] = inv[n]]_vars

\* generateDrills ended with a failure after the longest run it can have.
C38_Witness ==
  \E n \in DOMAIN inv :
    /\ inv[n].stage = "drills"
    /\ Ended(inv[n])
    /\ inv[n].res.t = "error"
    /\ AllReqs(inv[n]) = 14

\* ---------------------------------------------------------------- C39
\* The function answered with `status` and sent nothing upstream.
Refused(r, status) ==
  /\ r.pc = "done"
  /\ r.sent = <<>>
  /\ Len(r.out) = 1 /\ r.out[1].status = status

\* The text of a speech request is missing or blank.
BlankText(t) == ~t.set \/ \A i \in 1..Len(t.v) : t.v[i] \in WS

\* C39 (as stated): a handled request that is not a POST (nor an OPTIONS
\* where the function answers OPTIONS) is refused with 405; a POST with
\* API_BASE or API_KEY missing with 500; a POST to the CommonJS llm function
\* whose body is no JSON with 400; a POST to a tts function whose text is
\* missing or blank with 400; each without a request sent upstream.
C39_Original ==
  \A n \in DOMAIN inv :
    LET r == inv[n]
        post == r.req.method = "POST"
        configured == FnEnvNames \subseteq env
        body == r.req.body
    IN  r.pc # "start" =>
          /\ (~post /\ ~(r.req.method = "OPTIONS" /\ IsCjs(r.handler))) =>
               Refused(r, 405)
          /\ (post /\ ~configured) => Refused(r, 500)
          /\ (post /\ configured /\ r.handler = "llmCjs"
                /\ body.kind = "invalid") => Refused(r, 400)
          /\ (post /\ configured /\ IsTts(r.handler)
                /\ body.kind = "object" /\ BlankText(body.text)) =>
               Refused(r, 400)

\* ---------------------------------------------------------------- C40
\* The function has returned: one response, and none before.
OneResponse(r) == Len(r.out) = IF r.pc = "done" THEN 1 ELSE 0

\* C40 (as stated): a function returns exactly one response, and when an
\* exception was raised while it handled the request that response has
\* status 500.
C40_Original ==
  \A n \in DOMAIN inv :
    LET r == inv[n] IN
    /\ OneResponse(r)
    /\ (r.pc = "done" /\ r.threw # "none") => r.out[1].status = 500

\* C40 (amended): a function returns exactly one response. An exception that
\* reaches the catch around the handler (fetch rejecting, the reading of the
\* upstream body failing, a request body that is no JSON or is null) gives
\* status 500. The CommonJS llm function catches two exceptions itself: a
\* request body that is no JSON gives 400 with nothing sent, and an upstream
\* body of a successful response that is no JSON is passed on as text with
\* status 200.
C40_AlwaysOneResponse ==
  \A n \in DOMAIN inv :
    LET r == inv[n] IN
    /\ OneResponse(r)
    /\ r.pc = "done" =>
         CASE r.threw = "none" -> r.out[1].form # "stack"
           [] r.threw = "upstreamJson" ->
                /\ r.handler = "llmCjs" /\ r.upstream \in OkStatuses
                /\ r.out[1] = Resp(200, "verbatim", "text")
           [] r.threw = "requestJson" /\ r.handler = "llmCjs" ->
                r.out[1] = Resp(400, "message", "none") /\ r.sent = <<>>
           [] OTHER -> r.out[1] = Resp(500, "stack", "none")

\* fetch rejected in the ES-module llm function: status 500.
C40_Witness ==
  \E n \in DOMAIN inv :
    /\ inv[n].handler = "llmEsm"
    /\ inv[n].pc = "done"
    /\ Len(inv[n].sent) = 1
    /\ inv[n].threw = "network"
    /\ inv[n].out = <<Resp(500, "stack", "none")>>

====
